---- MODULE Spec2Model ----
(***************************************************************************)
(* The GCS source of pkg/sources/gcs/gcs.go: the resumable cache           *)
(* (persistableCache), the control loop of Source.Chunks, the per-object   *)
(* goroutines (processObject, setProgress) and the shared Progress.        *)
(*                                                                         *)
(* Strings are sequences of one-character strings, so that the rendering   *)
(* of the cache (Contents) and its reconstruction (strings.Split) are      *)
(* computed character by character.                                        *)
(***************************************************************************)
EXTENDS Bags, Integers, Sequences, FiniteSets, TLC

\* ------------------------------------------------------------------ bounds

\* Longest object sequence objectCh yields in a run.
MaxObjects == 3

\* Largest stats.numObjects reported by gcsManager.attributes.
MaxNumObjects == 3

\* Largest persist increment handed to newPersistableCache.
MaxPersistIncrement == 2

\* Object names: non-empty, free of the delimiter.
NameOrder == << <<"a">>, <<"b">>, <<"a", "b">> >>

Names == {NameOrder[i] : i \in DOMAIN NameOrder}

\* ----------------------------------------------------------------- strings

\* The delimiter of the snapshot string.
Delim == ","

\* strings.Split(s, ","), scanning s with cur the substring read so far.
RECURSIVE SplitFrom(_, _)
SplitFrom(s, cur) ==
    IF s = <<>> THEN <<cur>>
    ELSE IF Head(s) = Delim THEN <<cur>> \o SplitFrom(Tail(s), <<>>)
    ELSE SplitFrom(Tail(s), Append(cur, Head(s)))

Split(s) == SplitFrom(s, <<>>)

\* strings.Join(keys, ",")
RECURSIVE Join(_)
Join(keys) ==
    IF keys = <<>> THEN <<>>
    ELSE IF Len(keys) = 1 THEN keys[1]
    ELSE keys[1] \o <<Delim>> \o Join(Tail(keys))

\* ------------------------------------------------------------ memory cache

\* memory.New(): no key.
New == {}

\* memory.NewWithData(ctx, data): one key per element of data.
NewWithData(data) == {data[i] : i \in DOMAIN data}

\* Cache.Exists(key)
Exists(c, key) == key \in c

\* Cache.Set(key, val): the value is unused, presence is the signal.
CacheSet(c, key) == c \cup {key}

\* Cache.Count()
Count(c) == Cardinality(c)

\* The orders in which the keys of c can be listed (map iteration order).
KeyOrders(c) ==
    {o \in [1..Cardinality(c) -> c] : \A i, j \in DOMAIN o : i # j => o[i] # o[j]}

\* Cache.Contents(): the keys joined by the delimiter, in some order.
Contents(c) == {Join(o) : o \in KeyOrders(c)}

\* -------------------------------------------------------- persistableCache

\* shouldPersist counting the insertions before this one.
shouldPersistBefore(c, increment) == (Count(c) - 1) % increment = 0

\* A snapshot at every second multiple of the increment only.
shouldPersistSparse(c, increment) == Count(c) % (2 * increment) = 0

\* persistableCache.shouldPersist, its first result: the key count is a
\* multiple of the persist increment.
shouldPersist(c, increment) == Count(c) % increment = 0

\* persistableCache.Set(key, val), the values Progress.EncodedResumeInfo can
\* hold after it: a rendering of the cache when shouldPersist says so, the
\* old value otherwise. c is the cache after Cache.Set.
\* Set of the wrapped cache alone: nothing is written to Progress.
persistedNever(c, increment, info) == {info}

persistedInfo(c, increment, info) ==
    IF shouldPersist(c, increment) THEN Contents(c) ELSE {info}

\* setupCache without its test for empty resume info.
setupCacheUnchecked(info) == NewWithData(Split(info))

\* Source.setupCache: the cache a run starts with.
setupCache(info) ==
    IF info # <<>> THEN NewWithData(Split(info)) ELSE New

\* ----------------------------------------------------------------- float64

\* Significand width of an IEEE 754 double.
MantissaBits == 53

\* The binary digits of n, most significant first.
RECURSIVE NatBits(_)
NatBits(n) == IF n = 0 THEN <<>> ELSE Append(NatBits(n \div 2), n % 2)

RECURSIVE BitsNat(_)
BitsNat(b) ==
    IF b = <<>> THEN 0 ELSE 2 * BitsNat(SubSeq(b, 1, Len(b) - 1)) + b[Len(b)]

\* Zero digits after the binary point of r/n before its first one (0 < r < n).
RECURSIVE LeadZeros(_, _)
LeadZeros(r, n) == IF 2 * r >= n THEN 0 ELSE 1 + LeadZeros(2 * r, n)

RECURSIVE Pow2(_)
Pow2(k) == IF k = 0 THEN 1 ELSE 2 * Pow2(k - 1)

\* 2^k modulo n, by repeated squaring.
RECURSIVE Pow2Mod(_, _)
Pow2Mod(k, n) ==
    IF k = 0 THEN 1 % n
    ELSE LET h == Pow2Mod(k \div 2, n)
         IN  (((h * h) % n) * (IF k % 2 = 1 THEN 2 ELSE 1)) % n

\* The remainder of the long division of r by n (r < n) after k digits.
FracRem(r, n, k) == (r * Pow2Mod(k, n)) % n

\* The first k digits after the binary point of r/n (r < n), by long division.
FracBits(r, n, k) == [i \in 1..k |-> (2 * FracRem(r, n, i - 1)) \div n]

\* b + 1 on binary digits: the last 0 becomes 1, the ones after it 0.
IncBits(b) ==
    LET zs == {i \in DOMAIN b : b[i] = 0}
    IN  IF zs = {} THEN <<1>> \o [i \in DOMAIN b |-> 0]
        ELSE LET p == CHOOSE i \in zs : \A j \in zs : j <= i
             IN  [i \in DOMAIN b |-> IF i < p THEN b[i]
                                     ELSE IF i = p THEN 1 ELSE 0]

\* The w binary digits of v < 2^w.
PadBits(v, w) == [i \in 1..w |-> (v \div Pow2(w - i)) % 2]

\* Digits handled at a time in a product.
LimbBits == 12

\* The binary digits of b * m + carry, LimbBits digits of b at a time from
\* the least significant end.
RECURSIVE MulBits(_, _, _)
MulBits(b, m, carry) ==
    IF b = <<>> THEN NatBits(carry)
    ELSE LET cut == IF Len(b) > LimbBits THEN Len(b) - LimbBits ELSE 0
             w   == Len(b) - cut
             p   == BitsNat(SubSeq(b, cut + 1, Len(b))) * m + carry
         IN  MulBits(SubSeq(b, 1, cut), m, p \div Pow2(w))
                 \o PadBits(p % Pow2(w), w)

\* Rounding to nearest, ties to even, of x.bits (at least 54 digits, the
\* first one 1, of weight 2^x.exp; x.sticky: non-zero digits were cut off).
RoundNearestEven(x) ==
    LET m     == SubSeq(x.bits, 1, MantissaBits)
        rnd   == x.bits[MantissaBits + 1]
        rest  == SubSeq(x.bits, MantissaBits + 2, Len(x.bits))
        stick == x.sticky \/ (\E i \in DOMAIN rest : rest[i] = 1)
        up    == rnd = 1 /\ (stick \/ m[MantissaBits] = 1)
        m1    == IF up THEN IncBits(m) ELSE m
    IN  IF Len(m1) > MantissaBits
        THEN [bits |-> SubSeq(m1, 1, MantissaBits), exp |-> x.exp + 1]
        ELSE [bits |-> m1, exp |-> x.exp]

\* float64(c) / float64(n) for c >= 1, n >= 1.
FloatDiv(c, n) ==
    LET q  == c \div n
        r  == c % n
        ib == NatBits(q)
        z  == IF q = 0 THEN LeadZeros(r, n) ELSE 0
        r0 == IF q = 0 THEN r * Pow2(z) ELSE r
        k  == MantissaBits + 1 - Len(ib)
    IN  RoundNearestEven([bits   |-> ib \o FracBits(r0, n, k),
                          sticky |-> FracRem(r0, n, k) # 0,
                          exp    |-> IF q = 0 THEN -z - 1 ELSE Len(ib) - 1])

\* f * 100: the product of the significand by 100, then rounded.
FloatMul100(f) ==
    LET p == MulBits(f.bits, 100, 0)
    IN  RoundNearestEven([bits   |-> p,
                          sticky |-> FALSE,
                          exp    |-> f.exp + Len(p) - MantissaBits])

\* int64(f): truncation toward zero.
FloatTrunc(f) ==
    IF f.exp < 0 THEN 0 ELSE BitsNat(SubSeq(f.bits, 1, f.exp + 1))

\* int64(float64(completed) / float64(numObjects) * 100)
Percent(completed, numObj) ==
    IF completed = 0 THEN 0
    ELSE FloatTrunc(FloatMul100(FloatDiv(completed, numObj)))

\* Percent over the range of the concurrent runs, computed once.
percentOf ==
    [x \in {} |-> 0] @@
    [x \in (0..MaxObjects) \X (1..MaxNumObjects) |-> Percent(x[1], x[2])]

\* ------------------------------------------------------------------- state

VARIABLES
    objs,               \* the descriptors objectCh yields, by name, in order
    numObjects,         \* s.stats.numObjects
    persistIncrement,   \* persistableCache.persistIncrement
    pcMain,             \* where Chunks is
    next,               \* index of the next descriptor the range loop takes
    task,               \* task[i]: where the goroutine of descriptor i is
    sent,               \* descriptors whose chunk went out on chunksCh
    handled,            \* descriptors handlers.HandleFile reported handled
    mu,                 \* s.mu: 0 when free, else the task holding it
    cancelled,          \* ctx.Done() is closed
    cache,              \* the keys of the persistableCache of this run
    SectionsCompleted,
    SectionsRemaining,
    PercentComplete,
    Message,
    EncodedResumeInfo,
    seedKeys,           \* the key set whose rendering seeded this run
    snapKeys,           \* the key set EncodedResumeInfo was rendered from
    chunkSkel,          \* chunkSkel[i]: the chunk goroutine i has built
    chunksCh,           \* the chunks processObject has sent on s.chunksCh
    setLog              \* per Set call of the run: key count after it, persisted or not

vars == <<objs, numObjects, persistIncrement, pcMain, next, task, sent,
          handled, mu, cancelled, cache, SectionsCompleted, SectionsRemaining,
          PercentComplete, Message, EncodedResumeInfo, seedKeys, snapKeys,
          setLog, chunkSkel, chunksCh>>

inputs == <<objs, numObjects, persistIncrement>>

progress == <<SectionsCompleted, SectionsRemaining, PercentComplete, Message,
              EncodedResumeInfo>>

Tasks == 1..Len(objs)

\* The place of a name in NameOrder.
Rank(name) == CHOOSE i \in DOMAIN NameOrder : NameOrder[i] = name

\* The names are interchangeable (only the delimiter is special), so what
\* objectCh yields is listed up to renaming: the names of a sequence make
\* their first appearances in the order of NameOrder. The seed ranges over
\* every set of names, so a seeded name can be any name of the sequence.
FirstUse(s) ==
    \A i \in DOMAIN s :
        \A r \in 1..(Rank(s[i]) - 1) : \E j \in 1..(i - 1) : Rank(s[j]) = r

\* Object sequences of at most MaxObjects descriptors; a name may repeat.
ObjectSeqs ==
    {s \in UNION {[1..n -> Names] : n \in 0..MaxObjects} : FirstUse(s)}

\* The bytes of the object of a name.
Content(name) == <<"<">> \o name \o <<">">>

\* A chunkSkel whose Data is not assigned.
NoChunk == [Filename |-> <<>>, Data |-> <<>>]

StartMessage == <<"starting to process objects...">>

\* fmt.Sprintf("GCS source finished processing %d objects", s.stats.numObjects)
CompleteMessage(n) == <<"GCS source finished processing %d objects", n>>

\* Goroutines that were started and have not returned.
Running ==
    {t \in Tasks : task[t] \notin {"none", "skipped", "ok", "err", "ctxErr"}}

\* The Source before Source.Init: no stats yet, Progress holds whatever
\* resume info the caller stored from an earlier run.
Init ==
    /\ objs \in ObjectSeqs
    /\ numObjects = 0
    /\ persistIncrement \in 1..MaxPersistIncrement
    /\ pcMain = "init"
    /\ next = 1
    /\ task = [i \in 1..Len(objs) |-> "none"]
    /\ sent = {}
    /\ handled = {}
    /\ mu = 0
    /\ cancelled = FALSE
    /\ cache = {}
    /\ SectionsCompleted = 0
    /\ SectionsRemaining = 0
    /\ PercentComplete = 0
    /\ Message = <<>>
    /\ seedKeys \in SUBSET Names
    /\ EncodedResumeInfo \in Contents(seedKeys)
    /\ snapKeys = seedKeys
    /\ setLog = <<>>
    /\ chunkSkel = [i \in 1..Len(objs) |-> NoChunk]
    /\ chunksCh = EmptyBag

\* ------------------------------------------------------------- Source.Init

\* Source.Init succeeds: enumerate stores the stats gcsManager.attributes
\* returned.
SourceInit ==
    /\ pcMain = "init"
    /\ numObjects' \in 1..MaxNumObjects
    /\ pcMain' = "start"
    /\ UNCHANGED <<chunkSkel, chunksCh>>
    /\ UNCHANGED <<objs, persistIncrement, next, task, sent, handled, mu,
                   cancelled, cache, progress, seedKeys, snapKeys, setLog>>

\* anypb.UnmarshalTo or configureGCSManager fails: Init returns the error.
InitConfigError ==
    /\ pcMain = "init"
    /\ pcMain' = "configFailed"
    /\ UNCHANGED <<chunkSkel, chunksCh>>
    /\ UNCHANGED <<inputs, next, task, sent, handled, mu, cancelled, cache,
                   progress, seedKeys, snapKeys, setLog>>

\* gcsManager.attributes fails: enumerate and Init return the error, s.stats
\* is not set.
InitEnumerateError ==
    /\ pcMain = "init"
    /\ pcMain' = "enumFailed"
    /\ UNCHANGED <<chunkSkel, chunksCh>>
    /\ UNCHANGED <<inputs, next, task, sent, handled, mu, cancelled, cache,
                   progress, seedKeys, snapKeys, setLog>>

\* ------------------------------------------------------------------ Chunks

\* Chunks up to the range loop: setupCache, listObjects succeeds.
ChunksStart ==
    /\ pcMain = "start"
    /\ cache' = setupCache(EncodedResumeInfo)
    /\ Message' = StartMessage
    /\ pcMain' = "loop"
    /\ UNCHANGED <<chunkSkel, chunksCh>>
    /\ UNCHANGED <<inputs, next, task, sent, handled, mu, cancelled,
                   SectionsCompleted, SectionsRemaining, PercentComplete,
                   EncodedResumeInfo, seedKeys, snapKeys, setLog>>

\* Chunks with the status message set before listObjects is called.
ChunksListErrorLate ==
    /\ pcMain = "start"
    /\ cache' = setupCache(EncodedResumeInfo)
    /\ Message' = StartMessage
    /\ pcMain' = "failed"
    /\ UNCHANGED <<chunkSkel, chunksCh>>
    /\ UNCHANGED <<inputs, next, task, sent, handled, mu, cancelled,
                   SectionsCompleted, SectionsRemaining, PercentComplete,
                   EncodedResumeInfo, seedKeys, snapKeys, setLog>>

\* Chunks when listObjects fails: it returns the error.
ChunksListError ==
    /\ pcMain = "start"
    /\ cache' = setupCache(EncodedResumeInfo)
    /\ pcMain' = "failed"
    /\ UNCHANGED <<chunkSkel, chunksCh>>
    /\ UNCHANGED <<inputs, next, task, sent, handled, mu, cancelled,
                   progress, seedKeys, snapKeys, setLog>>

\* The loop without the cache check: every descriptor gets a goroutine.
spawnAlways(c, name) == "read"

\* The cache check the wrong way round.
spawnInverted(c, name) == IF Exists(c, name) THEN "read" ELSE "skipped"

\* What the loop does with a descriptor: skip it when the cache has its name,
\* else start its goroutine.
spawnDecision(c, name) == IF Exists(c, name) THEN "skipped" ELSE "read"

\* A loop that counts the descriptors it skips as completed.
DequeueCounted ==
    /\ pcMain = "loop"
    /\ next <= Len(objs)
    /\ task' = [task EXCEPT ![next] = spawnDecision(cache, objs[next])]
    /\ next' = next + 1
    /\ SectionsCompleted' =
           IF Exists(cache, objs[next]) THEN SectionsCompleted + 1
           ELSE SectionsCompleted
    /\ UNCHANGED <<inputs, pcMain, sent, handled, mu, cancelled, cache,
                   SectionsRemaining, PercentComplete, Message,
                   EncodedResumeInfo, seedKeys, snapKeys, setLog, chunkSkel,
                   chunksCh>>

\* One iteration of the range loop over objectCh.
Dequeue ==
    /\ pcMain = "loop"
    /\ next <= Len(objs)
    /\ task' = [task EXCEPT ![next] = spawnDecision(cache, objs[next])]
    /\ next' = next + 1
    /\ UNCHANGED <<chunkSkel, chunksCh>>
    /\ UNCHANGED <<inputs, pcMain, sent, handled, mu, cancelled, cache,
                   progress, seedKeys, snapKeys, setLog>>

\* objectCh is closed and drained: the loop ends, Chunks reaches wg.Wait.
LoopEnd ==
    /\ pcMain = "loop"
    /\ next > Len(objs)
    /\ pcMain' = "wait"
    /\ UNCHANGED <<chunkSkel, chunksCh>>
    /\ UNCHANGED <<inputs, next, task, sent, handled, mu, cancelled,
                   cache, progress, seedKeys, snapKeys, setLog>>

\* Chunks without the wait for its goroutines.
waitNothing == TRUE

\* wg.Wait returns when every goroutine is done.
waitDone == Running = {}

\* wg.Wait returns, completeProgress, return nil.
ChunksReturn ==
    /\ pcMain = "wait"
    /\ waitDone
    /\ Message' = CompleteMessage(numObjects)
    /\ pcMain' = "returned"
    /\ UNCHANGED <<chunkSkel, chunksCh>>
    /\ UNCHANGED <<inputs, next, task, sent, handled, mu, cancelled,
                   cache, SectionsCompleted, SectionsRemaining,
                   PercentComplete, EncodedResumeInfo, seedKeys, snapKeys,
                   setLog>>

\* ----------------------------------------------------------- processObject

\* A read error that ends the run, as it would under an errgroup.
ReadFailsRun(t) ==
    /\ task[t] = "read"
    /\ task' = [task EXCEPT ![t] = "err"]
    /\ pcMain' = "failed"
    /\ UNCHANGED <<chunkSkel, chunksCh>>
    /\ UNCHANGED <<inputs, next, sent, handled, mu, cancelled,
                   cache, progress, seedKeys, snapKeys, setLog>>

\* readObjectData fails: diskbufferreader.New, reader.Reset or io.ReadAll
\* returns an error; processObject returns it and the goroutine returns.
ReadFails(t) ==
    /\ task[t] = "read"
    /\ task' = [task EXCEPT ![t] = "err"]
    /\ UNCHANGED <<chunkSkel, chunksCh>>
    /\ UNCHANGED <<inputs, pcMain, next, sent, handled, mu, cancelled,
                   cache, progress, seedKeys, snapKeys, setLog>>

\* handlers.HandleFile returns true: data is nil, processObject returns nil.
ReadHandled(t) ==
    /\ task[t] = "read"
    /\ handled' = handled \cup {t}
    /\ task' = [task EXCEPT ![t] = "lock"]
    /\ UNCHANGED <<chunkSkel, chunksCh>>
    /\ UNCHANGED <<inputs, pcMain, next, sent, mu, cancelled, cache,
                   progress, seedKeys, snapKeys, setLog>>

\* A reader that is not rewound after the handler has read from it.
readerKeep(pos) == pos

\* reader.Reset(): the reader is back at the first byte.
readerReset(pos) == 0

\* io.ReadAll(reader): the bytes from the reader's position to the end.
readAll(content, pos) == SubSeq(content, pos + 1, Len(content))

\* The handler reads some of the object and declines, rewind and read
\* succeed: chunkSkel has the data and is ready to send.
ReadRaw(t) ==
    /\ task[t] = "read"
    /\ \E pos \in 0..Len(Content(objs[t])) :
           chunkSkel' = [chunkSkel EXCEPT ![t] =
               [Filename |-> objs[t],
                Data     |-> readAll(Content(objs[t]), readerReset(pos))]]
    /\ task' = [task EXCEPT ![t] = "send"]
    /\ UNCHANGED chunksCh
    /\ UNCHANGED <<inputs, pcMain, next, sent, handled, mu, cancelled,
                   cache, progress, seedKeys, snapKeys, setLog>>

\* select, case s.chunksCh <- chunkSkel: the consumer takes the chunk.
SendChunk(t) ==
    /\ task[t] = "send"
    /\ sent' = sent \cup {t}
    /\ chunksCh' = chunksCh (+) SetToBag({chunkSkel[t]})
    /\ task' = [task EXCEPT ![t] = "lock"]
    /\ UNCHANGED chunkSkel
    /\ UNCHANGED <<inputs, pcMain, next, handled, mu, cancelled, cache,
                   progress, seedKeys, snapKeys, setLog>>

\* The goroutine without its return on error: a cancelled send goes on to
\* setProgress.
SendCancelledCounted(t) ==
    /\ task[t] = "send"
    /\ cancelled
    /\ task' = [task EXCEPT ![t] = "lock"]
    /\ UNCHANGED <<chunkSkel, chunksCh>>
    /\ UNCHANGED <<inputs, pcMain, next, sent, handled, mu, cancelled,
                   cache, progress, seedKeys, snapKeys, setLog>>

\* A plain send in place of the select: a cancelled run does not end it.
SendOnly(t) ==
    /\ task[t] = "send"
    /\ FALSE
    /\ UNCHANGED vars

\* select, case <-ctx.Done(): processObject returns ctx.Err().
SendCancelled(t) ==
    /\ task[t] = "send"
    /\ cancelled
    /\ task' = [task EXCEPT ![t] = "ctxErr"]
    /\ UNCHANGED <<chunkSkel, chunksCh>>
    /\ UNCHANGED <<inputs, pcMain, next, sent, handled, mu, cancelled,
                   cache, progress, seedKeys, snapKeys, setLog>>

\* ------------------------------------------------------------- setProgress

\* setProgress without the lock.
lockIgnored(m) == TRUE

\* s.mu.Lock() can return.
lockFree(m) == m = 0

\* s.mu.Lock()
Lock(t) ==
    /\ task[t] = "lock"
    /\ lockFree(mu)
    /\ mu' = t
    /\ task' = [task EXCEPT ![t] = "inc"]
    /\ UNCHANGED <<chunkSkel, chunksCh>>
    /\ UNCHANGED <<inputs, pcMain, next, sent, handled, cancelled, cache,
                   progress, seedKeys, snapKeys, setLog>>

\* s.SectionsCompleted++
IncCompleted(t) ==
    /\ task[t] = "inc"
    /\ SectionsCompleted' = SectionsCompleted + 1
    /\ task' = [task EXCEPT ![t] = "set"]
    /\ UNCHANGED <<chunkSkel, chunksCh>>
    /\ UNCHANGED <<inputs, pcMain, next, sent, handled, mu, cancelled,
                   cache, SectionsRemaining, PercentComplete, Message,
                   EncodedResumeInfo, seedKeys, snapKeys, setLog>>

\* cache.Set(objName, objName) on the persistableCache.
PersistSet(t) ==
    /\ task[t] = "set"
    /\ cache' = CacheSet(cache, objs[t])
    /\ EncodedResumeInfo' \in persistedInfo(cache', persistIncrement, EncodedResumeInfo)
    /\ snapKeys' = IF shouldPersist(cache', persistIncrement) THEN cache' ELSE snapKeys
    /\ setLog' = Append(setLog, [count     |-> Cardinality(cache'),
                                 persisted |-> shouldPersist(cache', persistIncrement)])
    /\ task' = [task EXCEPT ![t] = "rem"]
    /\ UNCHANGED <<chunkSkel, chunksCh>>
    /\ UNCHANGED <<inputs, pcMain, next, sent, handled, mu, cancelled,
                   SectionsCompleted, SectionsRemaining, PercentComplete,
                   Message, seedKeys>>

\* A 64-bit count is held as four 16-bit limbs, least significant first.
LimbBase == 65536

\* The limbs of a count below 2^31.
Limbs(n) == <<n % LimbBase, n \div LimbBase, 0, 0>>

\* int32(s.stats.numObjects): the low 32 bits of the count, read as a signed
\* number.
remainingOf(w) ==
    IF w[2] >= LimbBase \div 2
    THEN (w[2] - LimbBase) * LimbBase + w[1]
    ELSE w[2] * LimbBase + w[1]

\* s.Progress.SectionsRemaining = int32(s.stats.numObjects)
SetRemaining(t) ==
    /\ task[t] = "rem"
    /\ SectionsRemaining' = remainingOf(Limbs(numObjects))
    /\ task' = [task EXCEPT ![t] = "pct"]
    /\ UNCHANGED <<chunkSkel, chunksCh>>
    /\ UNCHANGED <<inputs, pcMain, next, sent, handled, mu, cancelled,
                   cache, SectionsCompleted, PercentComplete, Message,
                   EncodedResumeInfo, seedKeys, snapKeys, setLog>>

\* The percentage taken from the count before this goroutine's increment.
SetPercentBefore(t) ==
    /\ task[t] = "pct"
    /\ PercentComplete' = percentOf[<<SectionsCompleted - 1, numObjects>>]
    /\ task' = [task EXCEPT ![t] = "unlock"]
    /\ UNCHANGED <<inputs, pcMain, next, sent, handled, mu, cancelled,
                   cache, SectionsCompleted, SectionsRemaining, Message,
                   EncodedResumeInfo, seedKeys, snapKeys, setLog, chunkSkel,
                   chunksCh>>

\* s.Progress.PercentComplete = int64(float64(...) / float64(...) * 100)
SetPercent(t) ==
    /\ task[t] = "pct"
    /\ PercentComplete' = percentOf[<<SectionsCompleted, numObjects>>]
    /\ task' = [task EXCEPT ![t] = "unlock"]
    /\ UNCHANGED <<chunkSkel, chunksCh>>
    /\ UNCHANGED <<inputs, pcMain, next, sent, handled, mu, cancelled,
                   cache, SectionsCompleted, SectionsRemaining, Message,
                   EncodedResumeInfo, seedKeys, snapKeys, setLog>>

\* setProgress returning with s.mu still held.
UnlockLeak(t) ==
    /\ task[t] = "unlock"
    /\ task' = [task EXCEPT ![t] = "ok"]
    /\ UNCHANGED <<inputs, pcMain, next, sent, handled, mu, cancelled, cache,
                   progress, seedKeys, snapKeys, setLog, chunkSkel, chunksCh>>

\* The deferred s.mu.Unlock(), then the goroutine's deferred wg.Done().
Unlock(t) ==
    /\ task[t] = "unlock"
    /\ mu' = 0
    /\ task' = [task EXCEPT ![t] = "ok"]
    /\ UNCHANGED <<chunkSkel, chunksCh>>
    /\ UNCHANGED <<inputs, pcMain, next, sent, handled, cancelled, cache,
                   progress, seedKeys, snapKeys, setLog>>

\* ------------------------------------------------------------- environment

\* The caller cancels the run's context.
Cancel ==
    /\ pcMain \in {"start", "loop", "wait"}
    /\ ~cancelled
    /\ cancelled' = TRUE
    /\ UNCHANGED <<chunkSkel, chunksCh>>
    /\ UNCHANGED <<inputs, pcMain, next, task, sent, handled, mu, cache,
                   progress, seedKeys, snapKeys, setLog>>

\* ------------------------------------------------------------ specification

TaskStep(t) ==
    \/ ReadFails(t)
    \/ ReadHandled(t)
    \/ ReadRaw(t)
    \/ SendChunk(t)
    \/ SendCancelled(t)
    \/ Lock(t)
    \/ IncCompleted(t)
    \/ PersistSet(t)
    \/ SetRemaining(t)
    \/ SetPercent(t)
    \/ Unlock(t)

Next ==
    \/ SourceInit
    \/ InitConfigError
    \/ InitEnumerateError
    \/ ChunksStart
    \/ ChunksListError
    \/ Dequeue
    \/ LoopEnd
    \/ ChunksReturn
    \/ \E t \in Tasks : TaskStep(t)
    \/ Cancel

Spec == Init /\ [][Next]_vars

\* Longest object sequence of the runs checked for progress.
MaxLiveObjects == 2

\* The runs of at most MaxLiveObjects descriptors with an empty seed and the
\* largest persist increment.
LiveInit ==
    /\ Init
    /\ Len(objs) <= MaxLiveObjects
    /\ seedKeys = {}
    /\ persistIncrement = MaxPersistIncrement

\* A goroutine whose select has a ready case is scheduled: once the context
\* is cancelled the case <-ctx.Done() stays ready. Nothing is assumed of the
\* consumer of chunksCh, which may never receive.
FairSpec ==
    /\ LiveInit
    /\ [][Next]_vars
    /\ \A t \in 1..MaxLiveObjects : WF_vars(t \in Tasks /\ SendCancelled(t))

\* The Go scheduler runs every goroutine that can take a step: the range
\* loop on a channel that yields its descriptors and is closed, wg.Wait,
\* the reads, the statements of setProgress, s.mu.Lock() once s.mu stays
\* free. Every pending send gets one of its two cases: the consumer receives
\* or, in a cancelled run, ctx.Done() is taken.
TermSpec ==
    /\ LiveInit
    /\ [][Next]_vars
    /\ WF_vars(Dequeue)
    /\ WF_vars(LoopEnd)
    /\ WF_vars(ChunksReturn)
    /\ \A t \in 1..MaxLiveObjects :
           /\ WF_vars(t \in Tasks /\ (ReadFails(t) \/ ReadHandled(t) \/ ReadRaw(t)))
           /\ WF_vars(t \in Tasks /\ (SendChunk(t) \/ SendCancelled(t)))
           /\ WF_vars(t \in Tasks /\ Lock(t))
           /\ WF_vars(t \in Tasks /\ (IncCompleted(t) \/ PersistSet(t)
                                          \/ SetRemaining(t) \/ SetPercent(t)
                                          \/ Unlock(t)))

\* ------------------------------------------------------------ serial runs

\* Largest stats.numObjects of a serial run.
MaxSerialObjects == 50

\* const defaultCachePersistIncrement
defaultCachePersistIncrement == 2500

\* The name of the i-th object of a serial run: i letters.
SerialName(i) == [j \in 1..i |-> "a"]

\* A run in which the goroutines reach setProgress one after the other, seen
\* at the states where s.mu is free; the cache starts empty and has the
\* persist increment setupCache gives it.
SerialInit ==
    /\ objs = <<>>
    /\ numObjects \in 1..MaxSerialObjects
    /\ persistIncrement = defaultCachePersistIncrement
    /\ pcMain = "serial"
    /\ next = 1
    /\ task = <<>>
    /\ sent = {}
    /\ handled = {}
    /\ mu = 0
    /\ cancelled = FALSE
    /\ cache = {}
    /\ SectionsCompleted = 0
    /\ SectionsRemaining = 0
    /\ PercentComplete = 0
    /\ Message = StartMessage
    /\ seedKeys = {}
    /\ EncodedResumeInfo = <<>>
    /\ snapKeys = {}
    /\ setLog = <<>>
    /\ chunkSkel = <<>>
    /\ chunksCh = EmptyBag

\* setProgress(ctx, objName, cache), from Lock to Unlock.
setProgress(objName) ==
    /\ lockFree(mu)
    /\ SectionsCompleted' = SectionsCompleted + 1
    /\ cache' = CacheSet(cache, objName)
    /\ EncodedResumeInfo' \in persistedInfo(cache', persistIncrement, EncodedResumeInfo)
    /\ snapKeys' = IF shouldPersist(cache', persistIncrement) THEN cache' ELSE snapKeys
    /\ setLog' = Append(setLog, [count     |-> Cardinality(cache'),
                                 persisted |-> shouldPersist(cache', persistIncrement)])
    /\ SectionsRemaining' = remainingOf(Limbs(numObjects))
    /\ PercentComplete' = Percent(SectionsCompleted', numObjects)
    /\ UNCHANGED <<chunkSkel, chunksCh>>
    /\ UNCHANGED <<inputs, pcMain, next, task, sent, handled, mu, cancelled,
                   Message, seedKeys>>

\* The next object of the bucket is recorded.
SerialProgress ==
    /\ pcMain = "serial"
    /\ SectionsCompleted < numObjects
    /\ setProgress(SerialName(SectionsCompleted + 1))

SerialSpec == SerialInit /\ [][SerialProgress]_vars

\* ------------------------------------------------------------- large counts

\* Limb values at the ends and in the middle of the range of a limb.
LimbValues == {0, 1, LimbBase \div 2 - 1, LimbBase \div 2, LimbBase - 1}

\* Counts over the whole range of 64 bits, as limbs.
WideCounts == [1..4 -> LimbValues] \ {<<0, 0, 0, 0>>}

\* A Source whose stats hold a count of WideCounts, with the goroutine of its
\* first object in setProgress, past the Set call.
WideInit ==
    /\ objs = <<>>
    /\ numObjects \in WideCounts
    /\ persistIncrement = defaultCachePersistIncrement
    /\ pcMain = "wide"
    /\ next = 1
    /\ task = <<>>
    /\ sent = {}
    /\ handled = {}
    /\ mu = 1
    /\ cancelled = FALSE
    /\ cache = {SerialName(1)}
    /\ SectionsCompleted = 1
    /\ SectionsRemaining = 0
    /\ PercentComplete = 0
    /\ Message = StartMessage
    /\ seedKeys = {}
    /\ EncodedResumeInfo = <<>>
    /\ snapKeys = {}
    /\ setLog = <<[count |-> 1, persisted |-> FALSE]>>
    /\ chunkSkel = <<>>
    /\ chunksCh = EmptyBag

\* s.Progress.SectionsRemaining = int32(s.stats.numObjects)
WideSetRemaining ==
    /\ pcMain = "wide"
    /\ SectionsRemaining' = remainingOf(numObjects)
    /\ pcMain' = "wideSet"
    /\ UNCHANGED <<inputs, next, task, sent, handled, mu, cancelled, cache,
                   SectionsCompleted, PercentComplete, Message,
                   EncodedResumeInfo, seedKeys, snapKeys, setLog, chunkSkel,
                   chunksCh>>

WideSpec == WideInit /\ [][WideSetRemaining]_vars

\* ------------------------------------------------------------------ claims

\* Goroutines inside setProgress, between Lock and Unlock.
InProgress == {t \in Tasks : task[t] \in {"inc", "set", "rem", "pct", "unlock"}}

\* Goroutines whose cache.Set has been done.
Inserted == {t \in Tasks : task[t] \in {"rem", "pct", "unlock", "ok"}}

\* C1: in a run seeded from the rendering of a key set, no goroutine is
\* started and no chunk is sent for a descriptor whose name is in that set.
C1_IdempotentResume ==
    \A i \in Tasks :
        objs[i] \in seedKeys => task[i] \in {"none", "skipped"} /\ i \notin sent

\* A seeded name was met and skipped while another object was sent.
C1_Witness ==
    \E i, j \in Tasks :
        /\ objs[i] \in seedKeys
        /\ task[i] = "skipped"
        /\ objs[j] \notin seedKeys
        /\ j \in sent
        /\ j < i

\* Goroutines whose processObject returned an error.
Failed == {t \in Tasks : task[t] \in {"err", "ctxErr"}}

\* The step of a goroutine whose processObject returns an error.
FailStep(t) ==
    /\ t \in Tasks
    /\ task[t] \in {"read", "send"}
    /\ task'[t] \in {"err", "ctxErr"}

C3_MonotoneBounded ==
    /\ [][SectionsCompleted' >= SectionsCompleted]_vars
    /\ [](SectionsCompleted <= numObjects)

\* The half of C3 that holds: sections-completed never decreases, and it is
\* at most the number of goroutines started.
C3_Monotone ==
    /\ [][SectionsCompleted' >= SectionsCompleted]_vars
    /\ [](SectionsCompleted <= Cardinality({t \in Tasks : task[t] \notin {"none", "skipped"}}))

\* C4: whenever no goroutine holds s.mu and stats.numObjects > 0,
\* percent-complete is floor(sections-completed / numObjects * 100) and is at
\* most 100.
C4_PercentIsFloor ==
    (mu = 0 /\ numObjects > 0) =>
        /\ PercentComplete = (SectionsCompleted * 100) \div numObjects
        /\ PercentComplete <= 100

\* C5 as stated: the snapshot is written on the P-th, 2P-th, ... Set call of
\* the run and on no other.
C5_CadenceByInsertion ==
    \A i \in DOMAIN setLog :
        setLog[i].persisted <=> (i % persistIncrement = 0)

\* The names objectCh yields are pairwise distinct.
DistinctNames == \A i, j \in DOMAIN objs : i # j => objs[i] # objs[j]

\* C5, amended: the snapshot is written on exactly the Set calls after which
\* the key count of the cache, seed keys included, is a multiple of P; with
\* an empty seed and pairwise distinct names these are the P-th, 2P-th, ...
\* Set calls.
C5_CadenceByCount ==
    /\ \A i \in DOMAIN setLog :
           setLog[i].persisted <=> (setLog[i].count % persistIncrement = 0)
    /\ (seedKeys = {} /\ DistinctNames) => C5_CadenceByInsertion

\* With P = 2 and a seeded cache the first Set call wrote the snapshot and
\* the second did not.
C5_Witness ==
    /\ persistIncrement = 2
    /\ seedKeys # {}
    /\ Len(setLog) >= 2
    /\ setLog[1].persisted
    /\ ~setLog[2].persisted

\* C6: the cache setupCache builds from the snapshot has exactly the keys the
\* snapshot was rendered from (none for the empty snapshot), and a run starts
\* with exactly the keys its seed was rendered from.
C6_RoundTrip ==
    /\ setupCache(EncodedResumeInfo) = snapKeys
    /\ (pcMain \in {"loop", "wait", "returned", "failed"} /\ setLog = <<>>) =>
           cache = seedKeys

\* A snapshot of two keys, one of them of two letters, published by the run.
C6_Witness ==
    /\ setLog # <<>>
    /\ setLog[Len(setLog)].persisted
    /\ Cardinality(snapKeys) >= 2
    /\ <<"a", "b">> \in snapKeys
    /\ seedKeys = {}

\* C7: a goroutine pending its send when the run is cancelled leaves the
\* send, whether or not chunksCh is ever received from: its chunk is sent or
\* processObject returns the cancellation error; and a pending send ends in
\* no other way.
C7_CancellationSafety ==
    /\ \A t \in 1..MaxLiveObjects :
           (t \in Tasks /\ task[t] = "send" /\ cancelled)
               ~> (t \in Tasks /\ (t \in sent \/ task[t] = "ctxErr"))
    /\ [][\A t \in 1..MaxObjects :
            (t \in Tasks /\ task[t] = "send" /\ task'[t] # "send") =>
                \/ task'[t] = "lock" /\ t \in sent'
                \/ task'[t] = "ctxErr" /\ cancelled]_vars

\* Every goroutine of a run of several objects is pending its send when the
\* run is cancelled.
C7_Witness ==
    /\ cancelled
    /\ Len(objs) >= 2
    /\ \A t \in Tasks : task[t] = "send"

\* C8: the completion message is set, and Chunks has returned, only when
\* objectCh is drained and no goroutine is running or holds s.mu.
C8_JoinBarrier ==
    (Message = CompleteMessage(numObjects) \/ pcMain = "returned") =>
        /\ pcMain = "returned"
        /\ next > Len(objs)
        /\ \A t \in Tasks : task[t] \in {"skipped", "ok", "err", "ctxErr"}
        /\ mu = 0

\* Chunks has returned after a skipped, a recorded and a failed object.
C8_Witness ==
    /\ pcMain = "returned"
    /\ Message = CompleteMessage(numObjects)
    /\ \E i, j, k \in Tasks :
           task[i] = "skipped" /\ task[j] = "ok" /\ task[k] \in {"err", "ctxErr"}

\* C9: at most one goroutine is between Lock and Unlock, the one s.mu names;
\* whenever s.mu is free, sections-completed (zero when the run started) is
\* the number of Set calls of the run and the number of goroutines that
\* finished successfully.
C9_AtomicUpdate ==
    /\ Cardinality(InProgress) <= 1
    /\ \A t \in InProgress : mu = t
    /\ mu = 0 =>
           /\ InProgress = {}
           /\ SectionsCompleted = Len(setLog)
           /\ SectionsCompleted = Cardinality({t \in Tasks : task[t] = "ok"})

\* Two goroutines were recorded, a third waits for s.mu, held by none.
C9_Witness ==
    /\ mu = 0
    /\ SectionsCompleted = 2
    /\ \E t \in Tasks : task[t] = "lock"

\* A goroutine waits for s.mu while another is inside setProgress.
C9_WitnessContended ==
    \E t, u \in Tasks : task[t] = "lock" /\ task[u] = "set"

\* C10: a failed object does not end the run: the error return of Chunks
\* comes only from listObjects, before any goroutine; every descriptor the
\* loop has taken was skipped for a name the cache holds or got a goroutine;
\* whatever failed, the loop can take the next descriptor and start its
\* goroutine when the cache lacks its name, and Chunks can return once the
\* goroutines are done.
C10_NonFatal ==
    /\ pcMain = "failed" => \A t \in Tasks : task[t] = "none"
    /\ \A i \in Tasks :
           i < next => /\ task[i] # "none"
                       /\ task[i] = "skipped" => objs[i] \in cache
    /\ (pcMain = "loop" /\ next <= Len(objs) /\ ~Exists(cache, objs[next])) =>
           ENABLED (Dequeue /\ task'[next] = "read")
    /\ (pcMain = "wait" /\ Running = {}) => ENABLED ChunksReturn
    /\ Failed # {} => pcMain \in {"loop", "wait", "returned"}

\* Chunks has returned nil after one object failed on reading, one on a
\* cancelled send, and a later one was recorded.
C10_Witness ==
    /\ pcMain = "returned"
    /\ \E i, j, k \in Tasks :
           /\ task[i] = "err" /\ task[j] = "ctxErr" /\ task[k] = "ok"
           /\ i < k /\ j < k
           /\ objs[k] \in cache

\* C11: a failure to get the stats makes Init return an error with no stats
\* stored; a failure of listObjects makes Chunks return an error; the failing
\* step starts no goroutine, sends nothing and leaves sections-completed,
\* percent-complete, the status message and the snapshot as they were, no
\* goroutine was started before it, and nothing happens after it.
C11_EnumerationFatal ==
    /\ [][(pcMain' \in {"enumFailed", "failed"} /\ pcMain' # pcMain) =>
             UNCHANGED <<task, sent, handled, SectionsCompleted,
                         PercentComplete, Message, EncodedResumeInfo>>]_vars
    /\ [][(pcMain \in {"enumFailed", "failed"}) => (vars' = vars)]_vars
    /\ [](pcMain = "enumFailed" => numObjects = 0)
    /\ [](pcMain \in {"enumFailed", "failed"} =>
            /\ \A t \in Tasks : task[t] = "none"
            /\ sent = {} /\ handled = {}
            /\ SectionsCompleted = 0 /\ PercentComplete = 0
            /\ Message = <<>>
            /\ snapKeys = seedKeys /\ setLog = <<>>)

\* listObjects failed in a resumed run over a bucket that has objects.
C11_Witness ==
    /\ pcMain = "failed"
    /\ Len(objs) >= 2
    /\ seedKeys # {}
    /\ numObjects >= 2

\* Goroutines past s.SectionsCompleted++.
Counted == {t \in Tasks : task[t] \in {"set", "rem", "pct", "unlock", "ok"}}

\* The chunk of a raw object: its metadata and all its bytes.
RawChunk(t) == [Filename |-> objs[t], Data |-> Content(objs[t])]

\* C12: for an object the handler handled, processObject sends no chunk and
\* the goroutine goes on to setProgress, which counts it and caches its
\* name; for an object the handler declined, the goroutine reaches
\* setProgress only after its chunk was sent; what went out on chunksCh is
\* one chunk per sent object, with the object's name and all its bytes; and
\* a pending send of a run that is not cancelled ends only by sending.
C12_HandledOrRaw ==
    /\ [](\A t \in handled :
            /\ t \notin sent
            /\ chunkSkel[t] = NoChunk
            /\ task[t] \in {"lock", "inc", "set", "rem", "pct", "unlock", "ok"})
    /\ [](\A t \in Tasks :
            task[t] = "ok" => t \in Counted /\ objs[t] \in cache)
    /\ [](\A t \in Tasks \ handled :
            task[t] \in {"lock", "inc", "set", "rem", "pct", "unlock", "ok"}
                => t \in sent)
    /\ [](/\ \A t \in sent : BagIn(RawChunk(t), chunksCh)
          /\ \A c \in BagToSet(chunksCh) :
                 CopiesIn(c, chunksCh) =
                     Cardinality({t \in sent : RawChunk(t) = c}))
    /\ [][\A t \in 1..MaxObjects :
            (t \in Tasks /\ task[t] = "send" /\ ~cancelled
                 /\ task'[t] # "send") =>
                /\ t \in sent'
                /\ chunksCh' = chunksCh (+) SetToBag({RawChunk(t)})]_vars

\* A handled object and a raw object of a two-letter name were both
\* recorded.
C12_Witness ==
    \E h \in handled, r \in sent :
        /\ task[h] = "ok" /\ task[r] = "ok"
        /\ objs[r] = <<"a", "b">>
        /\ ~cancelled

\* C13: every Set call adds its key to the cache; when the key count after
\* it is a multiple of the persist increment the snapshot becomes a rendering
\* of exactly the keys the cache then has, else the snapshot stays; nothing
\* else writes the snapshot; the cache has the seed keys and the names set so
\* far. With increment 2, an empty seed and distinct names the snapshot is
\* written by the second Set call only, with the first two names.
C13_SnapshotContent ==
    /\ [][(setLog' # setLog) =>
             /\ \E t \in Tasks : task[t] = "set" /\ cache' = cache \cup {objs[t]}
             /\ IF Cardinality(cache') % persistIncrement = 0
                THEN EncodedResumeInfo' \in Contents(cache') /\ snapKeys' = cache'
                ELSE EncodedResumeInfo' = EncodedResumeInfo /\ snapKeys' = snapKeys]_vars
    /\ [][(setLog' = setLog) => EncodedResumeInfo' = EncodedResumeInfo]_vars
    /\ [](pcMain \in {"loop", "wait", "returned"} =>
            cache = seedKeys \cup {objs[t] : t \in Inserted})
    /\ []((persistIncrement = 2 /\ seedKeys = {} /\ DistinctNames) =>
            /\ \A i \in DOMAIN setLog : setLog[i].persisted <=> i = 2
            /\ Len(setLog) < 2 => EncodedResumeInfo = <<>>
            /\ Len(setLog) >= 2 =>
                   /\ Cardinality(snapKeys) = 2
                   /\ EncodedResumeInfo \in Contents(snapKeys)
                   /\ snapKeys \subseteq cache)

\* Increment 2, empty seed, three names set: the snapshot has the first two.
C13_Witness ==
    /\ persistIncrement = 2
    /\ seedKeys = {}
    /\ Len(setLog) = 3
    /\ Cardinality(cache) = 3
    /\ Cardinality(snapKeys) = 2
    /\ Split(EncodedResumeInfo) \in KeyOrders(snapKeys)

C15_NoSpawnAfterCancel ==
    [][cancelled =>
         \A t \in 1..MaxObjects :
             (t \in Tasks /\ task[t] = "none") =>
                 task'[t] \in {"none", "skipped"}]_vars

\* C16: the loop decides on the cache as it is when the descriptor arrives:
\* it skips the descriptor when the cache has the name, which is when the
\* name was seeded or a goroutine of that name is past its Set call, and
\* else starts a goroutine, whatever goroutines of the same name are under
\* way; goroutines of one name pending their sends can all send; every
\* goroutine past its increment is counted, so sections-completed is the
\* number of such goroutines while the cache gains one key per name.
C16_DuplicateNames ==
    /\ [][\A j \in 1..MaxObjects :
            (j \in Tasks /\ task[j] = "none" /\ task'[j] # "none") =>
                /\ (objs[j] \in seedKeys
                        \/ \E i \in Inserted : objs[i] = objs[j])
                       => task'[j] = "skipped"
                /\ (objs[j] \notin seedKeys
                        /\ \A i \in Inserted : objs[i] # objs[j])
                       => task'[j] = "read"]_vars
    /\ [](\A i, j \in Tasks :
            (task[i] = "send" /\ task[j] = "send") =>
                ENABLED SendChunk(i) /\ ENABLED SendChunk(j))
    /\ [](SectionsCompleted = Cardinality(Counted))
    /\ [](pcMain \in {"loop", "wait", "returned"} =>
            cache \ seedKeys = {objs[t] : t \in Inserted} \ seedKeys)

\* Of three descriptors of one name the first two were started together,
\* both sent a chunk and both were counted; the third came after a Set call
\* and was skipped.
C16_Witness ==
    /\ Len(objs) = 3
    /\ objs[1] = objs[2] /\ objs[2] = objs[3]
    /\ task = <<"ok", "ok", "skipped">>
    /\ sent = {1, 2}
    /\ SectionsCompleted = 2
    /\ Cardinality(cache) = 1
    /\ BagCardinality(chunksCh) = 2

\* C17: the iteration of the loop that meets a name the cache has starts no
\* goroutine and changes nothing but the loop's place: the counters, the
\* cache, the snapshot, the status message, s.mu and chunksCh stay, and so
\* do the other goroutines; a skipped descriptor stays skipped, built and
\* sent no chunk, and is not among those sections-completed counts.
C17_SkipNoSideEffects ==
    /\ [][\A j \in 1..MaxObjects :
            (j \in Tasks /\ task[j] = "none" /\ task'[j] # "none"
                 /\ Exists(cache, objs[j])) =>
                /\ task' = [task EXCEPT ![j] = "skipped"]
                /\ UNCHANGED <<SectionsCompleted, SectionsRemaining,
                               PercentComplete, Message, EncodedResumeInfo,
                               cache, snapKeys, setLog, sent, handled, mu,
                               chunkSkel, chunksCh>>]_vars
    /\ [][\A j \in 1..MaxObjects :
            (j \in Tasks /\ task[j] = "skipped") => task'[j] = "skipped"]_vars
    /\ [](\A j \in Tasks :
            task[j] = "skipped" =>
                j \notin sent /\ j \notin handled /\ chunkSkel[j] = NoChunk)
    /\ [](SectionsCompleted =
              Cardinality({t \in Tasks \ {j \in Tasks : task[j] = "skipped"} :
                              t \in Counted}))

\* A resumed run has returned: the descriptor of a seeded name was skipped,
\* the one before it and the one after it were recorded, and only those two
\* are counted.
C17_Witness ==
    /\ pcMain = "returned"
    /\ task = <<"ok", "skipped", "ok">>
    /\ objs[2] \in seedKeys
    /\ SectionsCompleted = 2
    /\ PercentComplete > 0

\* C18: a run that started with an empty cache, whose objectCh yielded
\* stats.numObjects descriptors of distinct names and whose goroutines all
\* succeeded has, once Chunks returned and in whatever order the goroutines
\* finished, sections-completed equal to numObjects, percent-complete 100,
\* every name in the cache and the completion message with numObjects.
C18_FullSuccess ==
    (/\ pcMain = "returned"
     /\ seedKeys = {}
     /\ Len(objs) = numObjects
     /\ DistinctNames
     /\ \A t \in Tasks : task[t] = "ok") =>
        /\ SectionsCompleted = numObjects
        /\ PercentComplete = 100
        /\ \A t \in Tasks : objs[t] \in cache
        /\ Cardinality(cache) = numObjects
        /\ Message = CompleteMessage(numObjects)

\* Three objects of a bucket of three were recorded, one handled and two
\* sent, and Chunks has returned.
C18_Witness ==
    /\ pcMain = "returned"
    /\ seedKeys = {}
    /\ numObjects = 3
    /\ Len(objs) = 3
    /\ DistinctNames
    /\ \A t \in Tasks : task[t] = "ok"
    /\ Cardinality(handled) = 1
    /\ Cardinality(sent) = 2
    /\ ~cancelled

\* C19: when objectCh yields finitely many descriptors and is closed and
\* every pending send is received or, after cancellation, given up, every
\* goroutine started finishes and Chunks returns; and a goroutine pending a
\* send gets out of it only by the consumer's receive or, in a cancelled
\* run, by ctx.Done(), and Chunks does not return while it is pending.
C19_Termination ==
    /\ \A t \in 1..MaxLiveObjects :
           (t \in Running) ~> (t \in Tasks /\ task[t] \in {"ok", "err", "ctxErr"})
    /\ (pcMain = "loop") ~> (pcMain = "returned")
    /\ [](\A t \in Tasks :
            task[t] = "send" =>
                /\ ~ENABLED ChunksReturn
                /\ pcMain # "returned"
                /\ ~cancelled => ~ENABLED SendCancelled(t))
    /\ [][\A t \in 1..MaxLiveObjects :
            (t \in Tasks /\ task[t] = "send" /\ task'[t] # "send") =>
                \/ t \in sent' /\ BagCardinality(chunksCh') = BagCardinality(chunksCh) + 1
                \/ cancelled /\ task'[t] = "ctxErr"]_vars

\* Chunks has returned from a cancelled run of two objects: one send was
\* received, the other given up.
C19_Witness ==
    /\ pcMain = "returned"
    /\ cancelled
    /\ Len(objs) = 2
    /\ \E t, u \in Tasks : task[t] = "ok" /\ t \in sent /\ task[u] = "ctxErr"

\* C20: once setProgress has assigned it, sections-remaining is
\* stats.numObjects.
C20_RemainingIsTotal ==
    pcMain = "wideSet" =>
        /\ SectionsRemaining >= 0
        /\ Limbs(SectionsRemaining) = numObjects

\* The part of C20 that holds for counts below 2^31: whenever s.mu is free
\* and an object has been recorded sections-remaining is stats.numObjects,
\* whatever sections-completed is, and it never decreases.
C20_RemainingFromStats ==
    /\ []((mu = 0 /\ SectionsCompleted > 0) => SectionsRemaining = numObjects)
    /\ [](SectionsRemaining \in {0, numObjects})
    /\ [][SectionsRemaining' >= SectionsRemaining]_vars

====
